---- MODULE Spec2Model ----
(***************************************************************************)
(* Model of main.c, the pseudo-Hilbert curve generator.                    *)
(*                                                                         *)
(* Coordinates are C doubles.  Every value the program computes is a       *)
(* dyadic rational with a small exponent, so the double arithmetic is      *)
(* exact; the model keeps a coordinate as an integer count of 1/Unit.      *)
(* Arrays are sequences: C index i is index i + 1 here.                    *)
(***************************************************************************)
EXTENDS Integers, Sequences, FiniteSets, TLC

VARIABLES
    call,     \* the arguments of the outermost hilbert_create call
    stack,    \* the activation records of hilbert_create, innermost last
    heap,     \* every buffer malloc has returned, by allocation number
    status,   \* "running", "returned", "aborted", "segv"
    ret,      \* the value the outermost call returned
    outp,     \* the caller's pointer variable that out points at
    uaf,      \* a buffer was read or written after its release
    gpts,     \* geometry: the point array handed to a transform
    gprev,    \* geometry: the array before the last transform
    gorg,     \* geometry: the origin handed to the transforms
    gop       \* geometry: the last transform applied

hvars == <<call, stack, heap, status, ret, outp, uaf>>
gvars == <<gpts, gprev, gorg, gop>>
vars == <<call, stack, heap, status, ret, outp, uaf, gpts, gprev, gorg, gop>>

---------------------------------------------------------------------------
(* Bounds of the model *)

\* the highest order whose curve is built point by point
MaxOrder == 3
\* how far below order 1 the requested orders reach
NegDepth == 2
\* geometry: the longest array and the largest coordinate drawn
GeomLen == 2
GeomMax == 2

MinOrder == 1 - NegDepth

(* Program constants *)

\* the width of int, the type of the literal 1 in HILBERT_NUM_POINTS
IntBits == 32
\* sizeof(scale_origins) / sizeof(struct space_vec2)
NumQuadrants == 4

RECURSIVE Pow2(_)
Pow2(n) == IF n <= 0 THEN 1 ELSE 2 * Pow2(n - 1)

\* the number of grid steps in 1.0
Unit == Pow2(MaxOrder + 1)

NULL == 0
\* (size_t) -1, the value of "return -1"
SIZE_T_MINUS_1 == -1

---------------------------------------------------------------------------
(* GEOMETRY *)

POINT_AT(px, py) == [x |-> px, y |-> py]

SPACE_SWAP_POINT(point) ==
    LET tmp == point.x
    IN  [x |-> point.y, y |-> tmp]

SPACE_REFLECT_POINT(val, origin) ==
    LET v1 == val - origin
        v2 == v1 * (-1)
    IN  v2 + origin

space_reflect_y(arr, len, origin) ==
    [i \in 1..Len(arr) |->
        IF i <= len THEN [arr[i] EXCEPT !.x = SPACE_REFLECT_POINT(@, origin)]
                    ELSE arr[i]]

space_reflect_x(arr, len, origin) ==
    [i \in 1..Len(arr) |->
        IF i <= len THEN [arr[i] EXCEPT !.y = SPACE_REFLECT_POINT(@, origin)]
                    ELSE arr[i]]

\* a faulty variant of the macro: the other coordinate is negated
ROTATE_NEGATES_OTHER(point, neg_mult, origin) ==
    LET p1 == [x |-> point.x - origin.x, y |-> point.y - origin.y]
        p2 == SPACE_SWAP_POINT(p1)
        p3 == IF neg_mult = "x" THEN [p2 EXCEPT !.y = @ * (-1)]
                                ELSE [p2 EXCEPT !.x = @ * (-1)]
    IN  [x |-> p3.x + origin.x, y |-> p3.y + origin.y]

SPACE_ROTATE_POINT_ABOUT_ORIGIN(point, neg_mult, origin) ==
    LET p1 == [x |-> point.x - origin.x, y |-> point.y - origin.y]
        p2 == SPACE_SWAP_POINT(p1)
        p3 == IF neg_mult = "x" THEN [p2 EXCEPT !.x = @ * (-1)]
                                ELSE [p2 EXCEPT !.y = @ * (-1)]
    IN  [x |-> p3.x + origin.x, y |-> p3.y + origin.y]

space_rotate_c(arr, len, origin) ==
    [i \in 1..Len(arr) |->
        IF i <= len THEN SPACE_ROTATE_POINT_ABOUT_ORIGIN(arr[i], "x", origin)
                    ELSE arr[i]]

space_rotate_cc(arr, len, origin) ==
    [i \in 1..Len(arr) |->
        IF i <= len THEN SPACE_ROTATE_POINT_ABOUT_ORIGIN(arr[i], "y", origin)
                    ELSE arr[i]]

\* a scale factor is the fraction num/den; 0.5 is [num |-> 1, den |-> 2]
HALF == [num |-> 1, den |-> 2]
TimesScale(v, scale) == (v * scale.num) \div scale.den

\* a faulty variant of space_scale: the origin is not added back
space_scale_no_translate_back(arr, len, scale, origin) ==
    [i \in 1..Len(arr) |->
        IF i <= len
        THEN [x |-> TimesScale(arr[i].x - origin.x, scale),
              y |-> TimesScale(arr[i].y - origin.y, scale)]
        ELSE arr[i]]

space_scale(arr, len, scale, origin) ==
    LET scale_p == POINT_AT(scale, scale)
    IN  [i \in 1..Len(arr) |->
            IF i <= len
            THEN LET p1 == [x |-> arr[i].x - origin.x, y |-> arr[i].y - origin.y]
                     p2 == [x |-> TimesScale(p1.x, scale_p.x),
                            y |-> TimesScale(p1.y, scale_p.y)]
                 IN  [x |-> p2.x + origin.x, y |-> p2.y + origin.y]
            ELSE arr[i]]

---------------------------------------------------------------------------
(* HILBERT CURVE *)

\* The outcomes of (size_t) (1 << ((size_t) order * 2)).  The literal 1 is an
\* int: a shift count of IntBits or more (a negative order converted to
\* size_t is such a count) is undefined, and a build yields either 0 or the
\* shift by the count's low bits.  The count is even, so 1 << (IntBits - 1)
\* never occurs.
HILBERT_NUM_POINTS(order) ==
    LET count == order * 2
    IN  IF 0 <= count /\ count < IntBits
        THEN {Pow2(count)}
        ELSE {0, Pow2(count % IntBits)}

\* a faulty variant of o1_hilbert: the four points in the opposite order
o1_hilbert_reversed ==
    << POINT_AT(3 * (Unit \div 4), 3 * (Unit \div 4)),
       POINT_AT(3 * (Unit \div 4), Unit \div 4),
       POINT_AT(Unit \div 4, Unit \div 4),
       POINT_AT(Unit \div 4, 3 * (Unit \div 4)) >>

o1_hilbert ==
    << POINT_AT(Unit \div 4, 3 * (Unit \div 4)),       \* bottom left
       POINT_AT(Unit \div 4, Unit \div 4),             \* top left
       POINT_AT(3 * (Unit \div 4), Unit \div 4),       \* top right
       POINT_AT(3 * (Unit \div 4), 3 * (Unit \div 4))  \* bottom right
    >>

scale_origins ==
    << POINT_AT(0, Unit),     \* bottom left
       POINT_AT(0, 0),        \* top left
       POINT_AT(Unit, 0),     \* top right
       POINT_AT(Unit, Unit)   \* bottom right
    >>

center_point == POINT_AT(Unit \div 2, Unit \div 2)

(* The heap.  A buffer keeps its size in points, its contents, the number of
   times free was called on it, and the frame and variable that took it. *)

\* the contents of memory malloc returns, before the program writes it
Garbage == POINT_AT(-Unit, -Unit)

\* the largest buffer whose contents the model keeps
MaxPoints == Pow2(2 * MaxOrder)

Malloc(h, n, depth, role) ==
    Append(h, [size  |-> n,
               data  |-> IF n <= MaxPoints THEN [k \in 1..n |-> Garbage] ELSE <<>>,
               frees |-> 0,
               depth |-> depth,
               role  |-> role])

Live(h, b) == b \in DOMAIN h /\ h[b].frees = 0

\* a faulty variant of Free: the buffer is never released
FreeLeaks(h, b) == h

Free(h, b) ==
    IF b \in DOMAIN h
    THEN [h EXCEPT ![b].frees = @ + 1, ![b].data = <<>>]
    ELSE h

\* memcpy(&dst[at], src, n points)
Memcpy(dst, at, src, n) ==
    [k \in 1..Len(dst) |->
        IF at < k /\ k <= at + n /\ k - at <= Len(src) THEN src[k - at] ELSE dst[k]]

(* hilbert_create *)

Frame(order, out) ==
    [order |-> order, out |-> out, pc |-> "check",
     num_points |-> 0, arr |-> NULL,
     lo |-> NULL, lo_points |-> 0, work |-> NULL, i |-> 0]

Depth == Len(stack)
Top == stack[Depth]
Running == status = "running" /\ Depth > 0

SetTop(f) == [stack EXCEPT ![Depth] = f]

\* "*out = value; return n": the value lands in the caller's lo, or in the
\* variable of the outermost caller
ReturnTo(st, value, n) ==
    IF Len(st) > 1
    THEN /\ stack' = [k \in 1..(Len(st) - 1) |->
                        IF k = Len(st) - 1
                        THEN [st[k] EXCEPT !.lo = value, !.lo_points = n, !.pc = "loop"]
                        ELSE st[k]]
         /\ UNCHANGED <<status, ret, outp>>
    ELSE /\ stack' = <<>>
         /\ status' = "returned"
         /\ ret' = n
         /\ outp' = value

\* line 132: if (out == NULL && order >= 1) goto fail;
CheckInput ==
    /\ Running
    /\ Top.pc = "check"
    /\ stack' = SetTop([Top EXCEPT !.pc =
                   IF Top.out = "null" /\ Top.order >= 1 THEN "fail" ELSE "alloc"])
    /\ UNCHANGED <<gvars, call, heap, status, ret, outp, uaf>>

\* lines 135-137: num_points, malloc and assert(arr != NULL).  malloc may
\* return NULL, and the assertion then aborts the program.
AllocArr ==
    /\ Running
    /\ Top.pc = "alloc"
    /\ \E n \in HILBERT_NUM_POINTS(Top.order), ok \in BOOLEAN :
          IF ok
          THEN /\ heap' = Malloc(heap, n, Depth, "arr")
               /\ stack' = SetTop([Top EXCEPT !.num_points = n,
                                              !.arr = Len(heap) + 1,
                                              !.pc = "base"])
               /\ UNCHANGED status
          ELSE /\ stack' = SetTop([Top EXCEPT !.num_points = n, !.pc = "assert"])
               /\ status' = "aborted"
               /\ UNCHANGED heap
    /\ UNCHANGED <<gvars, call, ret, outp, uaf>>

\* lines 141-146: the order 1 curve is a copy of o1_hilbert
BaseCase ==
    /\ Running
    /\ Top.pc = "base"
    /\ Top.order = 1
    /\ heap' = [heap EXCEPT ![Top.arr].data =
                   Memcpy(@, 0, o1_hilbert, Top.num_points)]
    /\ uaf' = (uaf \/ ~Live(heap, Top.arr))
    /\ ReturnTo(stack, Top.arr, Top.num_points)
    /\ UNCHANGED <<gvars, call>>

\* lines 150-152: hilbert_create(order - 1, &lo).  The orders below MinOrder
\* and above MaxOrder are outside the model: the recursion is not followed
\* there.
Recurse ==
    /\ Running
    /\ Top.pc = "base"
    /\ Top.order # 1
    /\ MinOrder <= Top.order - 1
    /\ Top.order - 1 <= MaxOrder
    /\ stack' = Append(SetTop([Top EXCEPT !.pc = "call"]),
                       Frame(Top.order - 1, "lo"))
    /\ UNCHANGED <<gvars, call, heap, status, ret, outp, uaf>>

\* lines 159-163: the loop test, then malloc(lo_size), assert(work != NULL)
\* and memcpy(work, lo, lo_size)
AllocWork ==
    /\ Running
    /\ Top.pc = "loop"
    /\ Top.i < NumQuadrants
    /\ \E ok \in BOOLEAN :
          IF ok
          THEN /\ heap' = [Malloc(heap, Top.lo_points, Depth, "work")
                              EXCEPT ![Len(heap) + 1].data =
                                  Memcpy(@, 0, heap[Top.lo].data, Top.lo_points)]
               /\ stack' = SetTop([Top EXCEPT !.work = Len(heap) + 1,
                                              !.pc = "transform"])
               /\ uaf' = (uaf \/ ~Live(heap, Top.lo))
               /\ UNCHANGED status
          ELSE /\ stack' = SetTop([Top EXCEPT !.work = NULL, !.pc = "assert"])
               /\ status' = "aborted"
               /\ UNCHANGED <<heap, uaf>>
    /\ UNCHANGED <<gvars, call, ret, outp>>

\* lines 166-172: the transformations chosen by i
QuadrantTransform(i, w, n) ==
    IF i = 0
    THEN space_rotate_c(space_reflect_y(w, n, Unit \div 2), n, center_point)
    ELSE IF i = 4
         THEN space_rotate_cc(space_reflect_y(w, n, Unit \div 2), n, center_point)
         ELSE w

\* lines 166-174: the transformations, then space_scale by 0.5
Transform ==
    /\ Running
    /\ Top.pc = "transform"
    /\ heap' = [heap EXCEPT ![Top.work].data =
                   space_scale(QuadrantTransform(Top.i, @, Top.lo_points),
                               Top.lo_points, HALF, scale_origins[Top.i + 1])]
    /\ uaf' = (uaf \/ ~Live(heap, Top.work))
    /\ stack' = SetTop([Top EXCEPT !.pc = "copy"])
    /\ UNCHANGED <<gvars, call, status, ret, outp>>

\* line 177: memcpy(&arr[lo_points * i], work, ...)
CopyQuadrant ==
    /\ Running
    /\ Top.pc = "copy"
    /\ heap' = [heap EXCEPT ![Top.arr].data =
                   Memcpy(@, Top.lo_points * Top.i, heap[Top.work].data,
                          Top.lo_points)]
    /\ uaf' = (uaf \/ ~Live(heap, Top.work) \/ ~Live(heap, Top.arr))
    /\ stack' = SetTop([Top EXCEPT !.pc = "free_work"])
    /\ UNCHANGED <<gvars, call, status, ret, outp>>

\* line 180, and the i++ of line 159
FreeWork ==
    /\ Running
    /\ Top.pc = "free_work"
    /\ heap' = Free(heap, Top.work)
    /\ stack' = SetTop([Top EXCEPT !.i = @ + 1, !.pc = "loop"])
    /\ UNCHANGED <<gvars, call, status, ret, outp, uaf>>

\* line 159 with the loop over, and line 183
FreeLo ==
    /\ Running
    /\ Top.pc = "loop"
    /\ Top.i >= NumQuadrants
    /\ heap' = Free(heap, Top.lo)
    /\ stack' = SetTop([Top EXCEPT !.pc = "return"])
    /\ UNCHANGED <<gvars, call, status, ret, outp, uaf>>

\* lines 186-187
Return ==
    /\ Running
    /\ Top.pc = "return"
    /\ ReturnTo(stack, Top.arr, Top.num_points)
    /\ UNCHANGED <<gvars, call, heap, uaf>>

\* lines 190-191: *out = NULL; return -1.  Only a call with out == NULL gets
\* here, so the store is through a null pointer: undefined.  The build
\* either faults, or drops the store and returns.
Fail ==
    /\ Running
    /\ Top.pc = "fail"
    /\ IF Top.out = "null"
       THEN \/ /\ status' = "segv"
               /\ UNCHANGED <<stack, ret, outp>>
            \/ /\ status' = "returned"
               /\ stack' = <<>>
               /\ ret' = SIZE_T_MINUS_1
               /\ UNCHANGED outp
       ELSE ReturnTo(stack, NULL, SIZE_T_MINUS_1)
    /\ UNCHANGED <<gvars, call, heap, uaf>>

(* The calls made: the orders of the model, and the first order whose shift
   count reaches the width of int; out is a pointer variable of the caller,
   or NULL. *)
OverflowOrder == IntBits \div 2
Orders == (MinOrder..MaxOrder) \cup {OverflowOrder}

GeomIdle ==
    /\ gpts = <<>>
    /\ gprev = <<>>
    /\ gorg = POINT_AT(0, 0)
    /\ gop = "idle"

Init ==
    /\ call \in [order : Orders, out : {"null", "caller"}]
    /\ stack = <<Frame(call.order, call.out)>>
    /\ heap = <<>>
    /\ status = "running"
    /\ ret = 0
    /\ outp = NULL
    /\ uaf = FALSE
    /\ GeomIdle

Next ==
    \/ CheckInput
    \/ AllocArr
    \/ BaseCase
    \/ Recurse
    \/ AllocWork
    \/ Transform
    \/ CopyQuadrant
    \/ FreeWork
    \/ FreeLo
    \/ Return
    \/ Fail

Spec == Init /\ [][Next]_vars

---------------------------------------------------------------------------
(* The transforms on their own: an array and an origin are drawn, and one
   transform is applied to the whole array. *)

GeomCoords == 0..GeomMax
GeomPoints == [x : GeomCoords, y : GeomCoords]
GeomArrays == UNION {[1..n -> GeomPoints] : n \in 0..GeomLen}

HilbertIdle ==
    /\ call = [order |-> 1, out |-> "caller"]
    /\ stack = <<>>
    /\ heap = <<>>
    /\ status = "idle"
    /\ ret = 0
    /\ outp = NULL
    /\ uaf = FALSE

GeomInit ==
    /\ gpts \in GeomArrays
    /\ gprev = gpts
    /\ gorg \in GeomPoints
    /\ gop = "none"
    /\ HilbertIdle

ReflectY ==
    /\ gop = "none"
    /\ gpts' = space_reflect_y(gpts, Len(gpts), gorg.x)
    /\ gop' = "reflect_y"
    /\ UNCHANGED <<hvars, gprev, gorg>>

ReflectX ==
    /\ gop = "none"
    /\ gpts' = space_reflect_x(gpts, Len(gpts), gorg.y)
    /\ gop' = "reflect_x"
    /\ UNCHANGED <<hvars, gprev, gorg>>

RotateC ==
    /\ gop = "none"
    /\ gpts' = space_rotate_c(gpts, Len(gpts), gorg)
    /\ gop' = "rotate_c"
    /\ UNCHANGED <<hvars, gprev, gorg>>

RotateCC ==
    /\ gop = "none"
    /\ gpts' = space_rotate_cc(gpts, Len(gpts), gorg)
    /\ gop' = "rotate_cc"
    /\ UNCHANGED <<hvars, gprev, gorg>>

GeomNext ==
    \/ ReflectY
    \/ ReflectX
    \/ RotateC
    \/ RotateCC

SpecGeom == GeomInit /\ [][GeomNext]_vars

---------------------------------------------------------------------------
(* Properties *)

Returned == status = "returned"
\* the outermost call returned a curve, not the (size_t) -1 signal
ReturnedCurve == Returned /\ ret # SIZE_T_MINUS_1 /\ outp \in DOMAIN heap
Result == heap[outp].data

\* n = 4^order, computed downwards so that no power leaves the integers
RECURSIVE IsFourToThe(_, _)
IsFourToThe(n, order) ==
    IF order = 0 THEN n = 1
    ELSE n > 0 /\ n % 4 = 0 /\ IsFourToThe(n \div 4, order - 1)

\* the frames that have executed line 135
PastLine135(f) == f.pc \notin {"check", "alloc", "fail"}

\* C1: for every order >= 1, the length hilbert_create computes and returns
\* is 4^order, and the buffer it hands out holds exactly that many points.
C1_LengthIsFourToTheOrder ==
    /\ \A k \in 1..Depth :
          (stack[k].order >= 1 /\ PastLine135(stack[k])) =>
             /\ IsFourToThe(stack[k].num_points, stack[k].order)
             /\ stack[k].arr \in DOMAIN heap =>
                   heap[stack[k].arr].size = stack[k].num_points
    /\ (Returned /\ call.order >= 1 /\ call.out # "null") =>
          /\ IsFourToThe(ret, call.order)
          /\ outp \in DOMAIN heap
          /\ Len(Result) = ret

\* the blocks C2 names, computed from the order-(n-1) curve lo of n points
ClaimedBlock(q, lo, n) ==
    CASE q = 0 -> space_scale(
                     space_rotate_c(space_reflect_y(lo, n, Unit \div 2), n,
                                    POINT_AT(Unit \div 2, Unit \div 2)),
                     n, HALF, POINT_AT(0, Unit))
      [] q = 1 -> space_scale(lo, n, HALF, POINT_AT(0, 0))
      [] q = 2 -> space_scale(lo, n, HALF, POINT_AT(Unit, 0))
      [] q = 3 -> space_scale(
                     space_rotate_cc(space_reflect_y(lo, n, Unit \div 2), n,
                                     POINT_AT(Unit \div 2, Unit \div 2)),
                     n, HALF, POINT_AT(Unit, Unit))

\* a frame of order > 1 whose four quadrants are copied and whose lo is
\* still allocated
QuadrantsDone(f) == f.order > 1 /\ f.pc = "loop" /\ f.i = NumQuadrants

\* C2: for every order > 1 the curve is four blocks of 4^(order-1) points:
\* block 0 is the lower curve reflected about x = 0.5, rotated clockwise
\* about the centre and halved about (0,1); blocks 1 and 2 are it halved
\* about (0,0) and (1,0); block 3 is it reflected about x = 0.5, rotated
\* counter-clockwise about the centre and halved about (1,1).
C2_FourTransformedBlocks ==
    \A k \in 1..Depth :
        QuadrantsDone(stack[k]) =>
            LET f  == stack[k]
                lo == heap[f.lo].data
                n  == Len(lo)
            IN  /\ IsFourToThe(n, f.order - 1)
                /\ Len(heap[f.arr].data) = 4 * n
                /\ \A q \in 0..3 : \A j \in 1..n :
                      heap[f.arr].data[q * n + j] = ClaimedBlock(q, lo, n)[j]

\* C3: a call with order < 1 and a valid out returns (size_t) -1 with
\* *out = NULL, and allocates nothing and calls nothing before it does.
C3_InvalidOrderRejected ==
    (call.order < 1 /\ call.out # "null" /\ status # "idle") =>
        /\ heap = <<>>
        /\ Depth <= 1
        /\ Depth = 1 => Top.pc \in {"check", "fail"}
        /\ status \in {"running", "returned"}
        /\ Returned => (ret = SIZE_T_MINUS_1 /\ outp = NULL)

Abs(v) == IF v < 0 THEN -v ELSE v

\* p and q differ by d in exactly one coordinate and agree in the other
Adjacent(p, q, d) ==
    \/ Abs(p.x - q.x) = d /\ p.y = q.y
    \/ Abs(p.y - q.y) = d /\ p.x = q.x

\* C4: for every order >= 1, consecutive points of the curve differ by
\* 1/2^order in exactly one coordinate and agree in the other.
C4_ConsecutivePointsAdjacent ==
    (ReturnedCurve /\ call.order >= 1) =>
        \A j \in 1..(Len(Result) - 1) :
            Adjacent(Result[j], Result[j + 1], Unit \div Pow2(call.order))

Quarter(v) == 4 * v = Unit
ThreeQuarters(v) == 4 * v = 3 * Unit

\* C5: hilbert_create(1, &out) returns 4 and a newly allocated buffer that
\* holds (0.25,0.75), (0.25,0.25), (0.75,0.25), (0.75,0.75), in that order.
C5_OrderOneExactPoints ==
    (Returned /\ call.order = 1 /\ call.out # "null") =>
        /\ ret = 4
        /\ Live(heap, outp)
        /\ heap[outp].role = "arr"
        /\ Len(Result) = 4
        /\ Quarter(Result[1].x) /\ ThreeQuarters(Result[1].y)
        /\ Quarter(Result[2].x) /\ Quarter(Result[2].y)
        /\ ThreeQuarters(Result[3].x) /\ Quarter(Result[3].y)
        /\ ThreeQuarters(Result[4].x) /\ ThreeQuarters(Result[4].y)

\* C5 is exercised: an order 1 call has returned its buffer
C5_Witness == Returned /\ call.order = 1 /\ outp # NULL /\ Len(heap) = 1

\* C6: for every order >= 1, every coordinate of every point of the
\* returned curve lies in [0,1].
C6_PointsInUnitSquare ==
    (Returned /\ call.order >= 1 /\ ret # SIZE_T_MINUS_1) =>
        /\ Live(heap, outp)
        /\ Len(Result) = ret
        /\ \A j \in 1..Len(Result) :
              /\ 0 <= Result[j].x /\ Result[j].x <= Unit
              /\ 0 <= Result[j].y /\ Result[j].y <= Unit

\* C6 is exercised: the curve of the highest order has been returned
C6_Witness == ReturnedCurve /\ call.order = MaxOrder /\ Len(Result) = MaxPoints

\* a frame whose malloc returned NULL
AllocationFailed == \E k \in 1..Depth : stack[k].pc = "assert"

\* C8: when an allocation inside hilbert_create fails, the call does not
\* abort the program: it reports the failure to its caller, and every
\* buffer allocated on the way is released first.
C8_AllocationFailureReported ==
    AllocationFailed =>
        /\ status # "aborted"
        /\ \A b \in DOMAIN heap : heap[b].frees = 1

\* the working copies frame d holds that are not released
LiveWork(d) ==
    {b \in DOMAIN heap : heap[b].frees = 0 /\ heap[b].depth = d
                         /\ heap[b].role = "work"}

\* C9: in a call with order >= 1 no buffer is used after its release and
\* none is released twice, a frame never holds two working copies, and when
\* the call returns its curve every other buffer it allocated has been
\* released exactly once.
C9_BuffersReleasedOnce ==
    (call.order >= 1 /\ status # "idle") =>
        /\ ~uaf
        /\ \A b \in DOMAIN heap : heap[b].frees <= 1
        /\ \A d \in 1..Depth : Cardinality(LiveWork(d)) <= 1
        /\ ReturnedCurve =>
              \A b \in DOMAIN heap : heap[b].frees = (IF b = outp THEN 0 ELSE 1)

\* C9 is exercised: a curve is returned after working copies and lower
\* curves have been released
C9_Witness ==
    /\ ReturnedCurve
    /\ call.order = MaxOrder
    /\ \E b \in DOMAIN heap : heap[b].role = "work" /\ heap[b].frees = 1
    /\ \E b \in DOMAIN heap : heap[b].role = "arr" /\ heap[b].frees = 1

\* C10: a call with out == NULL and order >= 1 returns (size_t) -1 without
\* a store through out and without allocating.
C10_NullOutRejected ==
    (call.out = "null" /\ call.order >= 1 /\ status # "idle") =>
        /\ heap = <<>>
        /\ status \in {"running", "returned"}
        /\ Returned => ret = SIZE_T_MINUS_1

\* C7 as stated: space_rotate_c subtracts the origin, swaps, negates the y
\* it then has and adds the origin; space_rotate_cc negates the x instead.
C7_RotateCNegatesY ==
    /\ gop = "rotate_c" =>
          \A j \in 1..Len(gpts) :
              gpts[j] = [x |-> (gprev[j].y - gorg.y) + gorg.x,
                         y |-> -(gprev[j].x - gorg.x) + gorg.y]
    /\ gop = "rotate_cc" =>
          \A j \in 1..Len(gpts) :
              gpts[j] = [x |-> -(gprev[j].y - gorg.y) + gorg.x,
                         y |-> (gprev[j].x - gorg.x) + gorg.y]

\* C7, amended: space_rotate_c subtracts the origin, swaps, negates the x it
\* then has and adds the origin; space_rotate_cc negates the y instead.  The
\* length of the array is unchanged.
C7_RotateCNegatesX ==
    /\ gop = "rotate_c" =>
          /\ Len(gpts) = Len(gprev)
          /\ \A j \in 1..Len(gpts) :
                gpts[j] = [x |-> -(gprev[j].y - gorg.y) + gorg.x,
                           y |-> (gprev[j].x - gorg.x) + gorg.y]
    /\ gop = "rotate_cc" =>
          /\ Len(gpts) = Len(gprev)
          /\ \A j \in 1..Len(gpts) :
                gpts[j] = [x |-> (gprev[j].y - gorg.y) + gorg.x,
                           y |-> -(gprev[j].x - gorg.x) + gorg.y]

\* C7 is exercised: space_rotate_c has moved every point of a full array
C7_Witness ==
    /\ gop = "rotate_c"
    /\ Len(gpts) = GeomLen
    /\ \A j \in 1..Len(gpts) : gpts[j] # gprev[j]
    /\ gprev[1].x # gorg.x
    /\ gprev[1].y # gorg.y

====
